---- MODULE Spec2Model ----
(***************************************************************************)
(* rusty-power-meter: the ingestion loop (core_loop.rs), the extractor     *)
(* (meter_reading.rs), the durable store (database.rs), the latest-reading *)
(* cell and the serving thread (server/), as one state machine.            *)
(*                                                                         *)
(* Option<T> is a sequence of length at most one: None is << >> and        *)
(* Some(x) is <<x>>.  An f64 produced by the extractor is kept as the      *)
(* exact decimal [m |-> mantissa, e |-> exponent], meaning m * 10^e.       *)
(***************************************************************************)
EXTENDS Integers, Sequences, FiniteSets, TLC

VARIABLES
    db_exists,        \* the store file exists at Database::path()
    rows,             \* table Readings, in storage order
    clock,            \* SystemTime::now() in whole seconds
    main_pc,          \* position of the main thread (StartCommand::run, CoreLoop::enter)
    decoder,          \* state of the transport decoder: "start" or "in_frame"
    last_event,       \* outcome of the last iteration of the byte loop
    reading,          \* local `reading` of CoreLoop::enter
    latest_reading,   \* the AtomicCell<Option<MeterReading>> shared by both threads
    server_pc,        \* position of the serving thread
    published,        \* number of publishes so far (tags each cell content)
    inserts,          \* log of insert_reading calls
    history,          \* log of publish, take and respond events, in order
    sml_file,         \* input of MeterReading::parse (extractor specification)
    parse_result,     \* its result (extractor specification)
    schema,           \* the schema of the store file: None while there is no file
    obis_in,          \* input of the ObisCode constructors (identifier specification)
    obis_out,         \* the code, its text and the text parsed back
    query_in,         \* the statement handed to ReadonlyDatabase::query
    query_out,        \* the response to the last query
    db_handle,        \* the Database value a caller of the store holds (store specification)
    store_out         \* result of the last call to the store (store specification)

vars == <<db_exists, rows, clock, main_pc, decoder, last_event, reading, latest_reading, server_pc, published,
          inserts, history, sml_file, parse_result, schema, obis_in, obis_out, query_in, query_out,
          db_handle, store_out>>

\* the variables of the specifications of single components
aside == <<obis_in, obis_out, query_in, query_out, db_handle, store_out>>

----------------------------------------------------------------------------
(* Bounds of the model *)

\* wall-clock seconds the run spans
MaxClock == 2
\* Readings the loop extracts in one run
MaxFrames == 2
\* requests the serving thread answers in one run
MaxRequests == 2
\* entries of a record set drawn for the extractor specification
MaxEntries == 2

----------------------------------------------------------------------------
(* Option *)

None == << >>

Some(x) == <<x>>

IsSome(o) == Len(o) = 1

Unwrap(o) == o[1]

----------------------------------------------------------------------------
(* unit.rs *)

\* mutant: the codes of Ampere and Volt are exchanged
Unit_from_u8_swapped(value) ==
    CASE value = 8  -> Some("Degree")
      [] value = 27 -> Some("Watt")
      [] value = 30 -> Some("WattHour")
      [] value = 33 -> Some("Volt")
      [] value = 35 -> Some("Ampere")
      [] value = 44 -> Some("Hertz")
      [] OTHER      -> None

\* Unit::from_u8
Unit_from_u8(value) ==
    CASE value = 8  -> Some("Degree")
      [] value = 27 -> Some("Watt")
      [] value = 30 -> Some("WattHour")
      [] value = 33 -> Some("Ampere")
      [] value = 35 -> Some("Volt")
      [] value = 44 -> Some("Hertz")
      [] OTHER      -> None

----------------------------------------------------------------------------
(* obis_code.rs *)

\* Result<ObisCode, ObisParseError>: the five significant octets, or the error
ObisCode_try_from_octet_str(value) ==
    IF Len(value) # 6
    THEN [ok |-> FALSE, err |-> "InvalidLength", inner |-> << >>]
    ELSE [ok |-> TRUE, err |-> "", inner |-> SubSeq(value, 1, 5)]

\* a text is the sequence of its bytes (s.as_bytes()): b'0'..=b'9' is 48..57,
\* b'-' is 45, b'.' is 46, b':' is 58
DigitChars == <<48, 49, 50, 51, 52, 53, 54, 55, 56, 57>>

\* b'0'..=b'9'
IsDigit(c) == c \in 48..57

\* bytes[idx] - b'0'
DigitValue(c) == c - 48

RECURSIVE U8ToString(_)
\* "{}" of a u8: its decimal digits, without sign or leading zeros
U8ToString(n) ==
    IF n < 10 THEN <<DigitChars[n + 1]>>
    ELSE Append(U8ToString(n \div 10), DigitChars[(n % 10) + 1])

\* mutant: the second separator is written as '.'
ObisCode_fmt_all_dots(inner) ==
    U8ToString(inner[1]) \o <<45>> \o U8ToString(inner[2]) \o <<46>> \o
    U8ToString(inner[3]) \o <<46>> \o U8ToString(inner[4]) \o <<46>> \o
    U8ToString(inner[5])

\* impl Display for ObisCode: "{}-{}:{}.{}.{}"
ObisCode_fmt(inner) ==
    U8ToString(inner[1]) \o <<45>> \o U8ToString(inner[2]) \o <<58>> \o
    U8ToString(inner[3]) \o <<46>> \o U8ToString(inner[4]) \o <<46>> \o
    U8ToString(inner[5])

\* const SEPARATORS: &[u8; 4] = b"-:.."
SEPARATORS == <<45, 58, 46, 46>>

\* u8::checked_mul and u8::checked_add
CheckedMulU8(a, b) == IF a * b > 255 THEN None ELSE Some(a * b)

CheckedAddU8(a, b) == IF a + b > 255 THEN None ELSE Some(a + b)

RECURSIVE TryFromStrLoop(_, _, _, _)
\* `while idx < bytes.len()` of try_from_str, from position idx with the
\* components vals and the component index val_idx (counted from 0)
TryFromStrLoop(bytes, idx, vals, val_idx) ==
    IF idx > Len(bytes) THEN [ok |-> TRUE, err |-> "", inner |-> vals]
    ELSE IF IsDigit(bytes[idx]) THEN
        LET mul == CheckedMulU8(vals[val_idx + 1], 10)
        IN  IF mul = None THEN [ok |-> FALSE, err |-> "Overflow", inner |-> << >>]
            ELSE LET val == CheckedAddU8(Unwrap(mul), DigitValue(bytes[idx]))
                 IN  IF val = None THEN [ok |-> FALSE, err |-> "Overflow", inner |-> << >>]
                     ELSE TryFromStrLoop(bytes, idx + 1,
                                         [vals EXCEPT ![val_idx + 1] = Unwrap(val)], val_idx)
    ELSE IF val_idx < Len(SEPARATORS) /\ SEPARATORS[val_idx + 1] = bytes[idx]
    THEN TryFromStrLoop(bytes, idx + 1, vals, val_idx + 1)
    ELSE [ok |-> FALSE, err |-> "UnexpectedSeparator", inner |-> << >>]

\* ObisCode::try_from_str
ObisCode_try_from_str(s) == TryFromStrLoop(s, 1, <<0, 0, 0, 0, 0>>, 0)

OBIS_TOTAL_COUNT == ObisCode_try_from_octet_str(<<1, 0, 1, 8, 0, 255>>).inner

OBIS_LINE_ONE == ObisCode_try_from_octet_str(<<1, 0, 36, 7, 0, 255>>).inner

OBIS_LINE_TWO == ObisCode_try_from_octet_str(<<1, 0, 56, 7, 0, 255>>).inner

\* mutant: a fifth code, 1-0:2.8.0, is taken for the third line's power
OBIS_LINE_THREE_is_export == <<1, 0, 2, 8, 0>>

OBIS_LINE_THREE == ObisCode_try_from_octet_str(<<1, 0, 76, 7, 0, 255>>).inner

----------------------------------------------------------------------------
(* meter_reading.rs *)

EmptyReading ==
    [meter_time |-> None,
     meter_reading |-> None, meter_reading_unit |-> None,
     line_one |-> None, line_one_unit |-> None,
     line_two |-> None, line_two_unit |-> None,
     line_three |-> None, line_three_unit |-> None]

\* `-scaler` on an i8: -(-128) does not fit.  With overflow checks the
\* negation panics; without them it wraps to -128.
NegI8Overflows(scaler) == scaler = -128

NegI8Wrapping(scaler) == IF scaler = -128 THEN -128 ELSE -scaler

\* value as f64 / 10f64.powi(-scaler as i32), as an exact decimal
ScaleValue(value, scaler) ==
    IF IsSome(scaler)
    THEN [m |-> value, e |-> -NegI8Wrapping(Unwrap(scaler))]
    ELSE [m |-> value, e |-> 0]

\* mutant: a value of another type is coerced instead of skipped
ParseEntry_coerces(acc, entry, checks) ==
    LET obis_code == ObisCode_try_from_octet_str(entry.obj_name)
        unit == IF IsSome(entry.unit) THEN Unit_from_u8(Unwrap(entry.unit)) ELSE None
    IN  IF ~obis_code.ok THEN [panic |-> FALSE, values |-> acc]
        ELSE IF obis_code.inner = OBIS_TOTAL_COUNT THEN
            IF IsSome(entry.scaler) /\ NegI8Overflows(Unwrap(entry.scaler)) /\ checks
            THEN [panic |-> TRUE, values |-> acc]
            ELSE [panic |-> FALSE,
                  values |-> [acc EXCEPT
                      !.meter_reading = Some(ScaleValue(entry.value.v, entry.scaler)),
                      !.meter_reading_unit = unit,
                      !.meter_time =
                          IF IsSome(entry.val_time) /\ Unwrap(entry.val_time).kind = "SecIndex"
                          THEN Some(Unwrap(entry.val_time).v)
                          ELSE None]]
        ELSE IF obis_code.inner = OBIS_LINE_ONE THEN
            [panic |-> FALSE,
             values |-> [acc EXCEPT !.line_one = Some(entry.value.v), !.line_one_unit = unit]]
        ELSE IF obis_code.inner = OBIS_LINE_TWO THEN
            [panic |-> FALSE,
             values |-> [acc EXCEPT !.line_two = Some(entry.value.v), !.line_two_unit = unit]]
        ELSE IF obis_code.inner = OBIS_LINE_THREE THEN
            [panic |-> FALSE,
             values |-> [acc EXCEPT !.line_three = Some(entry.value.v), !.line_three_unit = unit]]
        ELSE [panic |-> FALSE, values |-> acc]

\* mutant: a timestamp of any kind becomes meter_time
ParseEntry_time_of_any_kind(acc, entry, checks) ==
    LET obis_code == ObisCode_try_from_octet_str(entry.obj_name)
        unit == IF IsSome(entry.unit) THEN Unit_from_u8(Unwrap(entry.unit)) ELSE None
    IN  IF ~obis_code.ok THEN [panic |-> FALSE, values |-> acc]
        ELSE IF obis_code.inner = OBIS_TOTAL_COUNT THEN
            IF entry.value.type # "U64" THEN [panic |-> FALSE, values |-> acc]
            ELSE IF IsSome(entry.scaler) /\ NegI8Overflows(Unwrap(entry.scaler)) /\ checks
            THEN [panic |-> TRUE, values |-> acc]
            ELSE [panic |-> FALSE,
                  values |-> [acc EXCEPT
                      !.meter_reading = Some(ScaleValue(entry.value.v, entry.scaler)),
                      !.meter_reading_unit = unit,
                      !.meter_time =
                          IF IsSome(entry.val_time)
                          THEN Some(Unwrap(entry.val_time).v)
                          ELSE None]]
        ELSE IF obis_code.inner = OBIS_LINE_ONE THEN
            IF entry.value.type # "I32" THEN [panic |-> FALSE, values |-> acc]
            ELSE [panic |-> FALSE,
                  values |-> [acc EXCEPT !.line_one = Some(entry.value.v),
                                         !.line_one_unit = unit]]
        ELSE IF obis_code.inner = OBIS_LINE_TWO THEN
            IF entry.value.type # "I32" THEN [panic |-> FALSE, values |-> acc]
            ELSE [panic |-> FALSE,
                  values |-> [acc EXCEPT !.line_two = Some(entry.value.v),
                                         !.line_two_unit = unit]]
        ELSE IF obis_code.inner = OBIS_LINE_THREE THEN
            IF entry.value.type # "I32" THEN [panic |-> FALSE, values |-> acc]
            ELSE [panic |-> FALSE,
                  values |-> [acc EXCEPT !.line_three = Some(entry.value.v),
                                         !.line_three_unit = unit]]
        ELSE [panic |-> FALSE, values |-> acc]

\* mutant: the timestamp of a line-one entry is taken as meter_time too
ParseEntry_line_sets_time(acc, entry, checks) ==
    LET obis_code == ObisCode_try_from_octet_str(entry.obj_name)
        unit == IF IsSome(entry.unit) THEN Unit_from_u8(Unwrap(entry.unit)) ELSE None
    IN  IF ~obis_code.ok THEN [panic |-> FALSE, values |-> acc]
        ELSE IF obis_code.inner = OBIS_TOTAL_COUNT THEN
            IF entry.value.type # "U64" THEN [panic |-> FALSE, values |-> acc]
            ELSE IF IsSome(entry.scaler) /\ NegI8Overflows(Unwrap(entry.scaler)) /\ checks
            THEN [panic |-> TRUE, values |-> acc]
            ELSE [panic |-> FALSE,
                  values |-> [acc EXCEPT
                      !.meter_reading = Some(ScaleValue(entry.value.v, entry.scaler)),
                      !.meter_reading_unit = unit,
                      !.meter_time =
                          IF IsSome(entry.val_time) /\ Unwrap(entry.val_time).kind = "SecIndex"
                          THEN Some(Unwrap(entry.val_time).v)
                          ELSE None]]
        ELSE IF obis_code.inner = OBIS_LINE_ONE THEN
            IF entry.value.type # "I32" THEN [panic |-> FALSE, values |-> acc]
            ELSE [panic |-> FALSE,
                  values |-> [acc EXCEPT !.line_one = Some(entry.value.v),
                                         !.line_one_unit = unit,
                                         !.meter_time =
                                             IF IsSome(entry.val_time)
                                                /\ Unwrap(entry.val_time).kind = "SecIndex"
                                             THEN Some(Unwrap(entry.val_time).v)
                                             ELSE None]]
        ELSE IF obis_code.inner = OBIS_LINE_TWO THEN
            IF entry.value.type # "I32" THEN [panic |-> FALSE, values |-> acc]
            ELSE [panic |-> FALSE,
                  values |-> [acc EXCEPT !.line_two = Some(entry.value.v),
                                         !.line_two_unit = unit]]
        ELSE IF obis_code.inner = OBIS_LINE_THREE THEN
            IF entry.value.type # "I32" THEN [panic |-> FALSE, values |-> acc]
            ELSE [panic |-> FALSE,
                  values |-> [acc EXCEPT !.line_three = Some(entry.value.v),
                                         !.line_three_unit = unit]]
        ELSE [panic |-> FALSE, values |-> acc]

\* one iteration of `for entry in &get_list_response.val_list`:
\* the accumulator after the entry, or a panic
ParseEntry(acc, entry, checks) ==
    LET obis_code == ObisCode_try_from_octet_str(entry.obj_name)
        unit == IF IsSome(entry.unit) THEN Unit_from_u8(Unwrap(entry.unit)) ELSE None
    IN  IF ~obis_code.ok THEN [panic |-> FALSE, values |-> acc]
        ELSE IF obis_code.inner = OBIS_TOTAL_COUNT THEN
            IF entry.value.type # "U64" THEN [panic |-> FALSE, values |-> acc]
            ELSE IF IsSome(entry.scaler) /\ NegI8Overflows(Unwrap(entry.scaler)) /\ checks
            THEN [panic |-> TRUE, values |-> acc]
            ELSE [panic |-> FALSE,
                  values |-> [acc EXCEPT
                      !.meter_reading = Some(ScaleValue(entry.value.v, entry.scaler)),
                      !.meter_reading_unit = unit,
                      !.meter_time =
                          IF IsSome(entry.val_time) /\ Unwrap(entry.val_time).kind = "SecIndex"
                          THEN Some(Unwrap(entry.val_time).v)
                          ELSE None]]
        ELSE IF obis_code.inner = OBIS_LINE_ONE THEN
            IF entry.value.type # "I32" THEN [panic |-> FALSE, values |-> acc]
            ELSE [panic |-> FALSE,
                  values |-> [acc EXCEPT !.line_one = Some(entry.value.v),
                                         !.line_one_unit = unit]]
        ELSE IF obis_code.inner = OBIS_LINE_TWO THEN
            IF entry.value.type # "I32" THEN [panic |-> FALSE, values |-> acc]
            ELSE [panic |-> FALSE,
                  values |-> [acc EXCEPT !.line_two = Some(entry.value.v),
                                         !.line_two_unit = unit]]
        ELSE IF obis_code.inner = OBIS_LINE_THREE THEN
            IF entry.value.type # "I32" THEN [panic |-> FALSE, values |-> acc]
            ELSE [panic |-> FALSE,
                  values |-> [acc EXCEPT !.line_three = Some(entry.value.v),
                                         !.line_three_unit = unit]]
        ELSE [panic |-> FALSE, values |-> acc]

RECURSIVE ParseEntries(_, _, _, _)
\* the loop over val_list from index i, stopping at the first panic
ParseEntries(acc, val_list, i, checks) ==
    IF i > Len(val_list) THEN [panic |-> FALSE, values |-> acc]
    ELSE LET step == ParseEntry(acc, val_list[i], checks)
         IN  IF step.panic THEN step
             ELSE ParseEntries(step.values, val_list, i + 1, checks)

\* MeterReading::parse: kind is "Err" (bail!), "Panic" or "Ok"
MeterReading_parse(file, checks) ==
    IF Len(file.messages) # 3
    THEN [kind |-> "Err", error |-> "Invalid number of messages", reading |-> EmptyReading]
    ELSE IF file.messages[2].kind # "GetListResponse"
    THEN [kind |-> "Err", error |-> "Unexpected message type", reading |-> EmptyReading]
    ELSE LET done == ParseEntries(EmptyReading, file.messages[2].val_list, 1, checks)
         IN  IF done.panic
             THEN [kind |-> "Panic", error |-> "attempt to negate with overflow",
                   reading |-> EmptyReading]
             ELSE [kind |-> "Ok", error |-> "", reading |-> done.values]

----------------------------------------------------------------------------
(* Record sets: what sml_rs::parser::complete::parse hands to the extractor *)

Entry(name, value, unit, scaler, time) ==
    [obj_name |-> name, value |-> value, unit |-> unit, scaler |-> scaler,
     val_time |-> time]

U64(v) == [type |-> "U64", v |-> v]

I32(v) == [type |-> "I32", v |-> v]

SecIndex(s) == [kind |-> "SecIndex", v |-> s]

Message(kind, val_list) == [kind |-> kind, val_list |-> val_list]

\* open response, data-list response, close response
ListFile(val_list) ==
    [messages |-> <<Message("OpenResponse", << >>),
                    Message("GetListResponse", val_list),
                    Message("CloseResponse", << >>)>>]

\* identifiers: the four mapped codes, an unmapped code, a code of the wrong length
ObjNames ==
    {<<1, 0, 1, 8, 0, 255>>, <<1, 0, 36, 7, 0, 255>>, <<1, 0, 56, 7, 0, 255>>,
     <<1, 0, 76, 7, 0, 255>>, <<1, 0, 2, 8, 0, 255>>, <<1, 0, 1>>}

\* value with its unit code and scale exponent
Payloads ==
    {<<U64(123456), Some(30), Some(-1)>>,
     <<U64(5), None, None>>,
     <<U64(7), Some(99), Some(-128)>>,
     <<I32(-3), Some(27), Some(0)>>,
     <<[type |-> "Bool", v |-> 1], Some(30), Some(-1)>>}

ValTimes == {None, Some(SecIndex(7)), Some([kind |-> "Timestamp", v |-> 9])}

Entries ==
    {Entry(n, p[1], p[2], p[3], t) : n \in ObjNames, p \in Payloads, t \in ValTimes}

EntryLists == UNION {[1..n -> Entries] : n \in 0..MaxEntries}

\* record sets of the wrong shape: two messages, four messages, no data list
MisshapenFiles ==
    {[messages |-> <<Message("OpenResponse", << >>), Message("CloseResponse", << >>)>>],
     [messages |-> <<Message("OpenResponse", << >>), Message("GetListResponse", << >>),
                    Message("GetListResponse", << >>), Message("CloseResponse", << >>)>>],
     [messages |-> <<Message("OpenResponse", << >>), Message("OpenResponse", << >>),
                    Message("CloseResponse", << >>)>>],
     [messages |-> <<Message("GetListResponse", << >>), Message("CloseResponse", << >>),
                    Message("OpenResponse", << >>)>>]}

ParseFiles == {ListFile(l) : l \in EntryLists} \cup MisshapenFiles

\* the record sets the meter sends on the line in the system specification
TotalEntryA ==
    Entry(<<1, 0, 1, 8, 0, 255>>, U64(123456), Some(30), Some(-1), Some(SecIndex(7)))

TotalEntryOverflow ==
    Entry(<<1, 0, 1, 8, 0, 255>>, U64(7), Some(99), Some(-128), None)

LineOneEntry ==
    Entry(<<1, 0, 36, 7, 0, 255>>, I32(-3), Some(27), Some(0), None)

\* a full record set, one without total energy, and one whose first total-energy
\* entry has scale exponent -128 and is overwritten by a second one
LineFiles ==
    {ListFile(<<TotalEntryA, LineOneEntry>>),
     ListFile(<<LineOneEntry>>),
     ListFile(<<TotalEntryOverflow, TotalEntryA, LineOneEntry>>)} \cup MisshapenFiles

----------------------------------------------------------------------------
(* database.rs: the table Readings behind the writer's connection *)

\* CREATE TABLE Readings (...); CREATE UNIQUE INDEX idx_timestamp ON Readings (Timestamp)
Schema ==
    [table |-> "Readings",
     columns |-> <<"MeterTime", "Timestamp", "MeterReading", "LineOne", "LineTwo", "LineThree">>,
     not_null |-> {"Timestamp", "MeterReading"},
     unique |-> {"Timestamp"}]

\* const UNIQUE_CONSTRAINT_ERROR: the primary result code SQLITE_CONSTRAINT,
\* which sqlite reports for every constraint violation of the schema
UNIQUE_CONSTRAINT_ERROR == 19

\* result codes of a failed statement that are not constraint violations
\* (SQLITE_IOERR, SQLITE_FULL)
IoErrorCodes == {10, 13}

\* the values bound to the INSERT statement
BoundRow(r, timestamp) ==
    [MeterTime |-> r.meter_time, Timestamp |-> timestamp,
     MeterReading |-> r.meter_reading,
     LineOne |-> r.line_one, LineTwo |-> r.line_two, LineThree |-> r.line_three]

Timestamps(table) == {table[k].Timestamp : k \in 1..Len(table)}

\* CREATE TABLE Readings: MeterReading REAL NOT NULL (Timestamp is always bound)
ViolatesNotNull(row) == row.MeterReading = None

\* mutant: the unique index is put on MeterTime instead of Timestamp
ViolatesUnique_on_meter_time(table, row) ==
    row.MeterTime \in {table[k].MeterTime : k \in 1..Len(table)}

\* CREATE UNIQUE INDEX idx_timestamp ON Readings (Timestamp)
ViolatesUnique(table, row) == row.Timestamp \in Timestamps(table)

\* statement.next() of the INSERT: the error code (0 when the row was written),
\* which constraint failed, and the table afterwards
ExecuteInsert(table, row, io_error) ==
    IF io_error # 0
    THEN [code |-> io_error, failed |-> "io", table |-> table]
    ELSE IF ViolatesNotNull(row)
    THEN [code |-> UNIQUE_CONSTRAINT_ERROR, failed |-> "not_null", table |-> table]
    ELSE IF ViolatesUnique(table, row)
    THEN [code |-> UNIQUE_CONSTRAINT_ERROR, failed |-> "unique", table |-> table]
    ELSE [code |-> 0, failed |-> "none", table |-> Append(table, row)]

\* mutant: a constraint violation is returned as an error like any other
Database_insert_reading_duplicate_fatal(table, r, timestamp, io_error) ==
    LET result == ExecuteInsert(table, BoundRow(r, timestamp), io_error)
    IN  IF result.code # 0
        THEN [ok |-> FALSE, warning |-> FALSE, failed |-> result.failed,
              table |-> result.table]
        ELSE [ok |-> TRUE, warning |-> FALSE, failed |-> result.failed,
              table |-> result.table]

\* Database::insert_reading: Ok(()) or Err, whether the warning was printed,
\* and the table afterwards
Database_insert_reading(table, r, timestamp, io_error) ==
    LET result == ExecuteInsert(table, BoundRow(r, timestamp), io_error)
    IN  IF result.code # 0
        THEN IF result.code = UNIQUE_CONSTRAINT_ERROR
             THEN [ok |-> TRUE, warning |-> TRUE, failed |-> result.failed,
                   table |-> result.table]
             ELSE [ok |-> FALSE, warning |-> FALSE, failed |-> result.failed,
                   table |-> result.table]
        ELSE [ok |-> TRUE, warning |-> FALSE, failed |-> result.failed,
              table |-> result.table]

\* mutant: init does not look whether the file exists and creates the store anew
Database_init_overwrites(exists, table, sch, io_ok) ==
    IF ~io_ok
    THEN [ok |-> FALSE, error |-> "io", exists |-> exists, table |-> table, schema |-> sch]
    ELSE [ok |-> TRUE, error |-> "", exists |-> TRUE, table |-> << >>, schema |-> Some(Schema)]

\* Database::init(path) on a path where a store exists or not, holding the rows
\* table under the schema sch: the Result and the store afterwards.  io_ok:
\* Connection::open and the CREATE statements succeed
Database_init(exists, table, sch, io_ok) ==
    IF exists
    THEN [ok |-> FALSE, error |-> "Database already exists.",
          exists |-> exists, table |-> table, schema |-> sch]
    ELSE IF ~io_ok
    THEN [ok |-> FALSE, error |-> "io", exists |-> exists, table |-> table, schema |-> sch]
    ELSE [ok |-> TRUE, error |-> "", exists |-> TRUE, table |-> << >>, schema |-> Some(Schema)]

\* a cell of a result row: its runtime type and its value
Cell(type, v) == [type |-> type, v |-> v]

NullCell == [type |-> "Null", v |-> 0]

\* the cell of a nullable column
OptionCell(type, o) == IF IsSome(o) THEN Cell(type, Unwrap(o)) ELSE NullCell

\* SELECT MeterTime, Timestamp, MeterReading, LineOne, LineTwo, LineThree FROM Readings:
\* the cells of one row, column 0 first
SelectReading(row) ==
    <<OptionCell("Integer", row.MeterTime), Cell("Integer", row.Timestamp),
      OptionCell("Float", row.MeterReading), OptionCell("Integer", row.LineOne),
      OptionCell("Integer", row.LineTwo), OptionCell("Integer", row.LineThree)>>

\* row.read::<T, _>(column): try_read(column).unwrap(), which panics unless the
\* cell has the runtime type of T
Row_read(cells, type, column) ==
    IF cells[column + 1].type = type
    THEN [panic |-> FALSE, v |-> cells[column + 1].v]
    ELSE [panic |-> TRUE, v |-> 0]

\* `as u32` of an i64 below 2^31: the value itself, or its wrap around 2^32
\* when it is negative
AsU32(x) == IF x >= 0 THEN x ELSE ((x + 2147483647) + 2147483647) + 2

\* `as i32` of an i64 between -2^31 and 2^31 - 1 keeps the value
AsI32(x) == IF -2147483647 - 1 <= x /\ x <= 2147483647 THEN x ELSE x % 2147483647

\* the closure of list_readings on one row that was read without error
ListedReading(cells) ==
    LET meter_time == Row_read(cells, "Integer", 0)
        meter_reading == Row_read(cells, "Float", 0)
        line_one == Row_read(cells, "Integer", 1)
        line_two == Row_read(cells, "Integer", 2)
        line_three == Row_read(cells, "Integer", 3)
    IN  IF \/ meter_time.panic \/ meter_reading.panic \/ line_one.panic
           \/ line_two.panic \/ line_three.panic
        THEN [kind |-> "Panic", reading |-> EmptyReading]
        ELSE [kind |-> "Ok",
              reading |-> [meter_time |-> Some(AsU32(meter_time.v)),
                           meter_reading |-> Some(meter_reading.v),
                           meter_reading_unit |-> Some("WattHour"),
                           line_one |-> Some(AsI32(line_one.v)),
                           line_one_unit |-> Some("Watt"),
                           line_two |-> Some(AsI32(line_two.v)),
                           line_two_unit |-> Some("Watt"),
                           line_three |-> Some(AsI32(line_three.v)),
                           line_three_unit |-> Some("Watt")]]

RECURSIVE ListFrom(_, _, _, _)
\* the iterator of list_readings consumed from row k on: the items so far, and
\* how it ended.  bad_row is the row whose step fails (0: none)
ListFrom(table, k, bad_row, items) ==
    IF k > Len(table) THEN [kind |-> "Ok", items |-> items]
    ELSE IF k = bad_row THEN [kind |-> "Err", items |-> items]
    ELSE LET item == ListedReading(SelectReading(table[k]))
         IN  IF item.kind = "Panic" THEN [kind |-> "Panic", items |-> items]
             ELSE ListFrom(table, k + 1, bad_row, Append(items, item.reading))

\* Database::list_readings, collected
Database_list_readings(table, bad_row) == ListFrom(table, 1, bad_row, << >>)

\* mutant: SELECT COUNT(DISTINCT MeterTime) FROM Readings
Database_metrics_counts_meter_times(table, exists, io_ok) ==
    IF ~io_ok \/ ~exists
    THEN [ok |-> FALSE, count_readings |-> 0]
    ELSE [ok |-> TRUE,
          count_readings |-> Cardinality({table[k].MeterTime : k \in 1..Len(table)})]

\* Database::metrics: SELECT COUNT(*) FROM Readings yields one row whose
\* column 0 is the number of rows, read as i64 and cast to u64 (never
\* negative); prepare, the step and fs::metadata of the store file may fail.
\* The size of the file is read from the file system and is not modelled.
Database_metrics(table, exists, io_ok) ==
    IF ~io_ok \/ ~exists
    THEN [ok |-> FALSE, count_readings |-> 0]
    ELSE [ok |-> TRUE, count_readings |-> Len(table)]

\* runtime types of a cell: sqlite::Type
CellTypes == {"Integer", "Float", "Null", "String", "Binary"}

\* enum Value { I64(i64), F64(f64) }
Value_I64(v) == [type |-> "I64", v |-> v]

Value_F64(v) == [type |-> "F64", v |-> v]

\* mutant: a cell of another type is reported as null
QueryCell_nulls_unknown(cells, column_types, index) ==
    CASE column_types[index + 1] = "Integer" ->
           LET got == Row_read(cells, "Integer", index)
           IN  IF got.panic THEN [kind |-> "Panic", value |-> None]
               ELSE [kind |-> "Ok", value |-> Some(Value_I64(got.v))]
      [] column_types[index + 1] = "Float" ->
           LET got == Row_read(cells, "Float", index)
           IN  IF got.panic THEN [kind |-> "Panic", value |-> None]
               ELSE [kind |-> "Ok", value |-> Some(Value_F64(got.v))]
      [] OTHER -> [kind |-> "Ok", value |-> None]

\* `let value = match column_types[index] { ... }` on one row
QueryCell(cells, column_types, index) ==
    CASE column_types[index + 1] = "Integer" ->
           LET got == Row_read(cells, "Integer", index)
           IN  IF got.panic THEN [kind |-> "Panic", value |-> None]
               ELSE [kind |-> "Ok", value |-> Some(Value_I64(got.v))]
      [] column_types[index + 1] = "Float" ->
           LET got == Row_read(cells, "Float", index)
           IN  IF got.panic THEN [kind |-> "Panic", value |-> None]
               ELSE [kind |-> "Ok", value |-> Some(Value_F64(got.v))]
      [] column_types[index + 1] = "Null" -> [kind |-> "Ok", value |-> None]
      [] OTHER -> [kind |-> "Err", value |-> None]

RECURSIVE QueryCells(_, _, _, _)
\* `for index in 0..column_count` on one row
QueryCells(cells, column_types, index, values) ==
    IF index >= Len(column_types) THEN [kind |-> "Ok", values |-> values]
    ELSE LET cell == QueryCell(cells, column_types, index)
         IN  IF cell.kind # "Ok" THEN [kind |-> cell.kind, values |-> values]
             ELSE QueryCells(cells, column_types, index + 1, Append(values, cell.value))

RECURSIVE QueryRows(_, _, _, _)
\* `for row in statement.into_iter()` over the rows the cursor yields
QueryRows(yielded, column_types, k, result_rows) ==
    IF k > Len(yielded) THEN [kind |-> "Ok", rows |-> result_rows]
    ELSE LET row == QueryCells(yielded[k], column_types, 0, << >>)
         IN  IF row.kind # "Ok" THEN [kind |-> row.kind, rows |-> << >>]
             ELSE QueryRows(yielded, column_types, k + 1, Append(result_rows, row.values))

\* statement.column_type(index) after the first statement.next(): the type of
\* the cell in the row the statement stands on, Null when it has no row
ColumnTypes(statement) ==
    [index \in 1..Len(statement.columns) |->
        IF statement.grid = << >> THEN "Null" ELSE statement.grid[1][index].type]

\* the rows statement.into_iter() yields after statement.next() has stepped to
\* the first row.  The cursor is library code: it either goes on from the
\* row the statement stands on (rows_again = FALSE) or starts over
CursorRows(statement, rows_again) ==
    IF rows_again \/ statement.grid = << >> THEN statement.grid ELSE Tail(statement.grid)

\* ReadonlyDatabase::query on the read-only connection.  A statement is
\* malformed (prepare fails), a write (the step fails on the read-only
\* connection) or a select with its column names and result grid
ReadonlyDatabase_query(statement, rows_again) ==
    IF statement.kind = "malformed" THEN [kind |-> "Err", error |-> "prepare"]
    ELSE IF statement.kind = "write" THEN [kind |-> "Err", error |-> "readonly"]
    ELSE LET done == QueryRows(CursorRows(statement, rows_again), ColumnTypes(statement),
                               1, << >>)
         IN  IF done.kind = "Panic" THEN [kind |-> "Panic", error |-> "unwrap"]
             ELSE IF done.kind = "Err"
             THEN [kind |-> "Err", error |-> "Unexpected column type"]
             ELSE [kind |-> "Ok", error |-> "", columns |-> statement.columns,
                   rows_count |-> Len(done.rows), rows |-> done.rows]

----------------------------------------------------------------------------
(* the AtomicCell<Option<MeterReading>> created by CoreLoop::new.  Each     *)
(* content carries the number of the publish that wrote it.                 *)

\* mutant: a publish into an occupied cell keeps the old content
AtomicCell_store_keeps_old(cell, val) == IF IsSome(cell) THEN cell ELSE val

\* store(val): the content is replaced
AtomicCell_store(cell, val) == val

\* mutant: take() reads the content without clearing the cell
AtomicCell_take_keeps(cell) == [value |-> cell, cell |-> cell]

\* take(): the content is swapped with None
AtomicCell_take(cell) == [value |-> cell, cell |-> None]

----------------------------------------------------------------------------
(* server/now.rs and server/api/now.rs *)

Routes == {"/now", "/api/now"}

\* status, content type and body of the response to what take() returned
NowResponse(route, taken) ==
    [status |-> IF IsSome(taken) THEN 200 ELSE 204,
     format |-> IF route = "/now" THEN "text/plain" ELSE "application/json",
     body |-> IF IsSome(taken) THEN Some(Unwrap(taken).reading) ELSE None]

Event(op, route, id, status, format, r) ==
    [op |-> op, route |-> route, id |-> id, status |-> status, format |-> format,
     reading |-> r]

CountOps(log, op) == Cardinality({k \in 1..Len(log) : log[k].op = op})

\* mutant: the connection of the Query Surface is opened for writing, and a
\* write statement empties the table
ReadonlyDatabase_effect_writable(table, statement) ==
    IF statement.kind = "write" THEN << >> ELSE table

\* the table after a statement on the connection opened by
\* ReadonlyDatabase::load with OpenFlags::new().with_read_only(): no statement
\* writes through it
ReadonlyDatabase_effect(table, statement) == table

\* the statements sent to POST /api/query: a select of all columns of
\* Readings, a write to Readings, and text that does not compile
BodyKinds == {"select", "write", "malformed"}

Body(kind, table) ==
    IF kind = "select"
    THEN [kind |-> kind, columns |-> Schema.columns,
          grid |-> [k \in 1..Len(table) |-> SelectReading(table[k])]]
    ELSE [kind |-> kind, columns |-> << >>, grid |-> << >>]

\* api::query::handler: the response for the result of database.query(&body);
\* a panic of the handler ends the request without a response
QueryResponse(result, seq) ==
    CASE result.kind = "Ok" ->
           [kind |-> "response", seq |-> seq, status |-> 200, format |-> "application/json",
            error |-> "", rows_count |-> result.rows_count]
      [] result.kind = "Err" ->
           [kind |-> "response", seq |-> seq, status |-> 400, format |-> "",
            error |-> result.error, rows_count |-> 0]
      [] OTHER ->
           [kind |-> "panic", seq |-> seq, status |-> 0, format |-> "",
            error |-> result.error, rows_count |-> 0]

----------------------------------------------------------------------------
(* the process *)

Terminated == {"exit_err", "exit_ok", "panic"}

Alive == main_pc \notin Terminated

\* no identifier, statement or store call is in progress
NoObis == [ok |-> FALSE, err |-> "not run", inner |-> << >>]

AsideIdle ==
    /\ obis_in = [kind |-> "none", v |-> << >>]
    /\ obis_out = [code |-> NoObis, text |-> << >>, parsed |-> NoObis]
    /\ query_in = [kind |-> "none"]
    /\ query_out = [kind |-> "none", seq |-> 0]
    /\ db_handle = "none"
    /\ store_out = [op |-> "none"]

NoResult ==
    [checks |-> FALSE, out |-> [kind |-> "none", error |-> "", reading |-> EmptyReading]]

Init ==
    /\ db_exists \in BOOLEAN
    /\ rows = << >>
    /\ clock = 1
    /\ main_pc = "load"
    /\ decoder = "start"
    /\ last_event = "none"
    /\ reading = EmptyReading
    /\ latest_reading = None
    /\ server_pc = "not_spawned"
    /\ published = 0
    /\ inserts = << >>
    /\ history = << >>
    /\ sml_file = ListFile(<< >>)
    /\ parse_result = NoResult
    /\ schema = IF db_exists THEN Some(Schema) ELSE None
    /\ AsideIdle

\* SystemTime::now() advances
Tick ==
    /\ Alive
    /\ clock < MaxClock
    /\ clock' = clock + 1
    /\ UNCHANGED <<db_exists, schema, rows, main_pc, decoder, last_event, reading, latest_reading, server_pc, published,
                   inserts, history, sml_file, aside, parse_result>>

----------------------------------------------------------------------------
(* cli/start.rs: StartCommand::run on the main thread *)

\* Database::load()?: opens the store, or creates it with an empty table
DatabaseLoad ==
    /\ main_pc = "load"
    /\ \E io_ok \in BOOLEAN :
         IF io_ok
         THEN /\ main_pc' = "spawn"
              /\ db_exists' = TRUE
              /\ rows' = IF db_exists THEN rows ELSE << >>
              /\ schema' = IF db_exists THEN schema ELSE Some(Schema)
         ELSE /\ main_pc' = "exit_err"
              /\ UNCHANGED <<db_exists, schema, rows>>
    /\ UNCHANGED <<clock, decoder, last_event, reading,
                   latest_reading, server_pc, published, inserts, history,
                   sml_file, aside, parse_result>>

\* mutant: the serving thread is spawned before Database::load has run
SpawnServer_before_load ==
    /\ \/ main_pc = "load" /\ server_pc = "not_spawned" /\ main_pc' = main_pc
       \/ main_pc = "spawn" /\ main_pc' = "open_port"
    /\ latest_reading' = None
    /\ server_pc' = IF server_pc = "not_spawned" THEN "create" ELSE server_pc
    /\ UNCHANGED <<db_exists, schema, rows, clock, decoder, last_event, reading, published, inserts, history, sml_file, aside,
                   parse_result>>

\* CoreLoop::new creates the empty cell; thread::spawn starts the serving thread
SpawnServer ==
    /\ main_pc = "spawn"
    /\ main_pc' = "open_port"
    /\ latest_reading' = None
    /\ server_pc' = "create"
    /\ UNCHANGED <<db_exists, schema, rows, clock, decoder, last_event, reading, published, inserts, history, sml_file, aside,
                   parse_result>>

----------------------------------------------------------------------------
(* core_loop.rs: CoreLoop::enter on the main thread *)

\* serialport::new(..).open().expect("Failed to open port")
OpenPort ==
    /\ main_pc = "open_port"
    /\ \E opened \in BOOLEAN :
         main_pc' = IF opened THEN "listening" ELSE "panic"
    /\ UNCHANGED <<db_exists, schema, rows, clock, decoder, last_event, reading, latest_reading, server_pc, published,
                   inserts, history, sml_file, aside, parse_result>>

LoopUnchanged ==
    UNCHANGED <<db_exists, schema, rows, clock, latest_reading, server_pc,
                published, inserts, history, sml_file, aside, parse_result>>

\* `let byte = res?` on Err: every io::Error the iterator yields ends the loop.
\* std::io::Bytes retries ErrorKind::Interrupted only; a read that times out
\* yields Err(TimedOut).
ReadError ==
    /\ main_pc = "listening"
    /\ \E kind \in {"timeout", "io_error"} : last_event' = kind
    /\ main_pc' = "exit_err"
    /\ UNCHANGED <<decoder, reading>>
    /\ LoopUnchanged

\* port.bytes() ends (a read of zero bytes): the loop is left with Ok(())
ReadEof ==
    /\ main_pc = "listening"
    /\ last_event' = "eof"
    /\ main_pc' = "join"
    /\ UNCHANGED <<decoder, reading>>
    /\ LoopUnchanged

\* decoder.push_byte(byte) = Ok(None): the byte belongs to a frame in progress
PushIncomplete ==
    /\ main_pc = "listening"
    /\ decoder' = "in_frame"
    /\ last_event' = "incomplete"
    /\ UNCHANGED <<main_pc, reading>>
    /\ LoopUnchanged

\* mutant: a framing error is propagated with `?` and ends the loop
PushFramingError_fatal ==
    /\ main_pc = "listening"
    /\ decoder = "in_frame"
    /\ decoder' = "start"
    /\ last_event' = "framing_error"
    /\ main_pc' = "exit_err"
    /\ UNCHANGED reading
    /\ LoopUnchanged

\* decoder.push_byte(byte) = Err(e): the frame in progress is dropped
PushFramingError ==
    /\ main_pc = "listening"
    /\ decoder = "in_frame"
    /\ decoder' = "start"
    /\ last_event' = "framing_error"
    /\ UNCHANGED <<main_pc, reading>>
    /\ LoopUnchanged

\* Ok(Some(decoded_bytes)) and sml_rs::parser::complete::parse fails
PushParseError ==
    /\ main_pc = "listening"
    /\ decoder = "in_frame"
    /\ decoder' = "start"
    /\ last_event' = "parse_error"
    /\ UNCHANGED <<main_pc, reading>>
    /\ LoopUnchanged

\* Ok(Some(decoded_bytes)), the payload parses, MeterReading::parse runs
PushFile ==
    /\ main_pc = "listening"
    /\ decoder = "in_frame"
    /\ \E file \in LineFiles, checks \in BOOLEAN :
         LET result == MeterReading_parse(file, checks)
         IN  CASE result.kind = "Err" ->
                    /\ last_event' = "shape_error"
                    /\ UNCHANGED <<main_pc, reading>>
               [] result.kind = "Panic" ->
                    /\ last_event' = "panic"
                    /\ main_pc' = "panic"
                    /\ UNCHANGED reading
               [] OTHER ->
                    /\ Len(inserts) < MaxFrames
                    /\ last_event' = "reading"
                    /\ main_pc' = "insert"
                    /\ reading' = result.reading
    /\ decoder' = "start"
    /\ LoopUnchanged

\* mutant: the result of insert_reading is discarded, the loop publishes anyway
InsertReading_ignores_error ==
    /\ main_pc = "insert"
    /\ \E io_error \in {0} \cup IoErrorCodes :
         LET done == Database_insert_reading(rows, reading, clock, io_error)
         IN  /\ rows' = done.table
             /\ main_pc' = "publish"
             /\ inserts' = Append(inserts,
                    [reading |-> reading, timestamp |-> clock, before |-> rows,
                     failed |-> done.failed, ok |-> done.ok, warning |-> done.warning])
    /\ UNCHANGED <<db_exists, schema, clock, decoder, last_event, reading,
                   latest_reading, server_pc, published, history, sml_file, aside,
                   parse_result>>

\* self.database.insert_reading(&reading)?
InsertReading ==
    /\ main_pc = "insert"
    /\ \E io_error \in {0} \cup IoErrorCodes :
         LET done == Database_insert_reading(rows, reading, clock, io_error)
         IN  /\ rows' = done.table
             /\ main_pc' = IF done.ok THEN "publish" ELSE "exit_err"
             /\ inserts' = Append(inserts,
                    [reading |-> reading, timestamp |-> clock, before |-> rows,
                     failed |-> done.failed, ok |-> done.ok, warning |-> done.warning])
    /\ UNCHANGED <<db_exists, schema, clock, decoder, last_event, reading,
                   latest_reading, server_pc, published, history, sml_file, aside,
                   parse_result>>

\* self.latest_reading.store(Some(reading))
Publish ==
    /\ main_pc = "publish"
    /\ published' = published + 1
    /\ latest_reading' =
         AtomicCell_store(latest_reading, Some([id |-> published + 1, reading |-> reading]))
    /\ history' = Append(history,
         Event("publish", "", published + 1, 0, "", Some(reading)))
    /\ main_pc' = "listening"
    /\ UNCHANGED <<db_exists, schema, rows, clock, decoder, last_event, reading, server_pc, inserts, sml_file, aside, parse_result>>

\* server_thread.join().unwrap()?: reached when the byte loop ends with Ok(())
JoinServer ==
    /\ main_pc = "join"
    /\ server_pc \in {"panicked", "failed"}
    /\ main_pc' = IF server_pc = "panicked" THEN "panic" ELSE "exit_err"
    /\ UNCHANGED <<db_exists, schema, rows, clock, decoder, last_event, reading, latest_reading, server_pc, published,
                   inserts, history, sml_file, aside, parse_result>>

----------------------------------------------------------------------------
(* server/mod.rs: the serving thread *)

ServerUnchanged ==
    UNCHANGED <<db_exists, schema, rows, clock, main_pc, decoder,
                last_event, reading, published, inserts, sml_file, aside,
                parse_result>>

\* Server::create: ReadonlyDatabase::load().unwrap() panics the thread when the
\* store is missing or cannot be opened
ServerCreate ==
    /\ Alive
    /\ server_pc = "create"
    /\ \E io_ok \in BOOLEAN :
         server_pc' = IF db_exists /\ io_ok THEN "bind" ELSE "panicked"
    /\ UNCHANGED <<latest_reading, history>>
    /\ ServerUnchanged

\* Server::enter: TcpListener::bind(addr).await?
ServerBind ==
    /\ Alive
    /\ server_pc = "bind"
    /\ \E bound \in BOOLEAN :
         server_pc' = IF bound THEN "serving" ELSE "failed"
    /\ UNCHANGED <<latest_reading, history>>
    /\ ServerUnchanged

\* Server::enter: future.await returns an io::Error
ServeFails ==
    /\ Alive
    /\ server_pc = "serving"
    /\ server_pc' = "failed"
    /\ UNCHANGED <<latest_reading, history>>
    /\ ServerUnchanged

\* now::handler / api::now::handler: latest_reading_cell.take(), then the
\* response is built from what was taken.  Only take() touches shared state.
\* The runtime is new_current_thread(), so one handler runs at a time.
HandleNow ==
    /\ Alive
    /\ server_pc = "serving"
    /\ CountOps(history, "request") < MaxRequests
    /\ \E route \in Routes :
         LET taken == AtomicCell_take(latest_reading)
             response == NowResponse(route, taken.value)
         IN  /\ latest_reading' = taken.cell
             /\ history' = Append(history,
                  Event("request", route,
                        IF IsSome(taken.value) THEN Unwrap(taken.value).id ELSE 0,
                        response.status, response.format, response.body))
    /\ UNCHANGED server_pc
    /\ ServerUnchanged

\* api::query::handler on POST /api/query
HandleQuery ==
    /\ Alive
    /\ server_pc = "serving"
    /\ query_out.seq < MaxRequests
    /\ \E kind \in BodyKinds, rows_again \in BOOLEAN :
         LET body == Body(kind, rows)
         IN  /\ query_in' = body
             /\ query_out' = QueryResponse(ReadonlyDatabase_query(body, rows_again),
                                           query_out.seq + 1)
             /\ rows' = ReadonlyDatabase_effect(rows, body)
    /\ UNCHANGED <<db_exists, schema, clock, main_pc, decoder, last_event, reading,
                   latest_reading, server_pc, published, inserts, history, sml_file,
                   parse_result, obis_in, obis_out, db_handle, store_out>>

----------------------------------------------------------------------------
(* specifications *)

\* the main thread's steps other than a failed or ended serial read
MainProgress ==
    \/ DatabaseLoad
    \/ SpawnServer
    \/ OpenPort
    \/ InsertReading
    \/ Publish
    \/ JoinServer
    \/ PushIncomplete
    \/ PushFramingError
    \/ PushParseError
    \/ PushFile

ServerThread ==
    \/ ServerCreate
    \/ ServerBind
    \/ ServeFails
    \/ HandleNow

Next ==
    \/ Tick
    \/ DatabaseLoad
    \/ SpawnServer
    \/ OpenPort
    \/ ReadError
    \/ ReadEof
    \/ PushIncomplete
    \/ PushFramingError
    \/ PushParseError
    \/ PushFile
    \/ InsertReading
    \/ Publish
    \/ JoinServer
    \/ ServerCreate
    \/ ServerBind
    \/ ServeFails
    \/ HandleNow

Spec == Init /\ [][Next]_vars

\* both threads are scheduled, and the byte loop keeps running while the meter
\* sends
FairSpec == Spec /\ WF_vars(MainProgress) /\ WF_vars(ServerThread)

----------------------------------------------------------------------------
(* the process under query traffic: the main thread as above, and the serving
   thread answering POST /api/query *)

NextSurface ==
    \/ Tick
    \/ MainProgress
    \/ ReadError
    \/ ReadEof
    \/ ServerCreate
    \/ ServerBind
    \/ ServeFails
    \/ HandleQuery

SurfaceSpec == Init /\ [][NextSurface]_vars

----------------------------------------------------------------------------
(* the extractor alone: MeterReading::parse applied to a drawn record set *)

InitParse ==
    /\ db_exists = FALSE
    /\ rows = << >>
    /\ clock = 1
    /\ main_pc = "load"
    /\ decoder = "start"
    /\ last_event = "none"
    /\ reading = EmptyReading
    /\ latest_reading = None
    /\ server_pc = "not_spawned"
    /\ published = 0
    /\ inserts = << >>
    /\ history = << >>
    /\ sml_file \in ParseFiles
    /\ parse_result = NoResult
    /\ schema = None
    /\ AsideIdle

\* let reading = MeterReading::parse(sml_file), in a build with or without
\* overflow checks
Extract ==
    /\ parse_result.out.kind = "none"
    /\ \E checks \in BOOLEAN :
         parse_result' = [checks |-> checks, out |-> MeterReading_parse(sml_file, checks)]
    /\ UNCHANGED <<db_exists, schema, rows, clock, main_pc, decoder, last_event, reading,
                   latest_reading, server_pc, published, inserts, history, sml_file, aside>>

NextParse == Extract

ParseSpec == InitParse /\ [][NextParse]_vars

----------------------------------------------------------------------------
(* the unit mapping alone: MeterReading::parse applied to a record set of one
   entry of a mapped code, for every unit code an entry can carry *)

\* entry.unit is an Option<u8>
UnitCodeValues == 0..255

UnitValues == {U64(5), I32(-3)}

UnitFiles ==
    {ListFile(<<Entry(Append(code, 255), value, unit, None, None)>>) :
        code \in {OBIS_TOTAL_COUNT, OBIS_LINE_ONE, OBIS_LINE_TWO, OBIS_LINE_THREE},
        value \in UnitValues,
        unit \in {None} \cup {Some(c) : c \in UnitCodeValues}}

InitUnit ==
    /\ db_exists = FALSE
    /\ rows = << >>
    /\ clock = 1
    /\ main_pc = "load"
    /\ decoder = "start"
    /\ last_event = "none"
    /\ reading = EmptyReading
    /\ latest_reading = None
    /\ server_pc = "not_spawned"
    /\ published = 0
    /\ inserts = << >>
    /\ history = << >>
    /\ sml_file \in UnitFiles
    /\ parse_result = NoResult
    /\ schema = None
    /\ AsideIdle

UnitSpec == InitUnit /\ [][NextParse]_vars

----------------------------------------------------------------------------
(* the identifier alone: the ObisCode constructors and Display applied to a
   drawn octet string or text *)

\* longest octet string drawn
MaxOctets == 7

OctetValues == {0, 36, 255}

OctetStrs == UNION {[1..n -> OctetValues] : n \in 0..MaxOctets}

\* bytes put into a text in place of one of its own: 0 6 9 - : . x
TextAlphabet == {48, 54, 57, 45, 58, 46, 120}

DropAt(t, i) == SubSeq(t, 1, i - 1) \o SubSeq(t, i + 1, Len(t))

\* a text, its prefixes, and the texts with one character dropped, replaced or added
Edits(t) ==
    {t}
    \cup {SubSeq(t, 1, i) : i \in 0..Len(t)}
    \cup {DropAt(t, i) : i \in 1..Len(t)}
    \cup {[t EXCEPT ![i] = c] : i \in 1..Len(t), c \in TextAlphabet}
    \cup {Append(t, c) : c \in TextAlphabet}

\* the texts of the codes over two octet values, edited
Texts == UNION {Edits(ObisCode_fmt(inner)) : inner \in [1..5 -> {0, 255}]}

Unstarted ==
    /\ db_exists = FALSE
    /\ rows = << >>
    /\ clock = 1
    /\ main_pc = "load"
    /\ decoder = "start"
    /\ last_event = "none"
    /\ reading = EmptyReading
    /\ latest_reading = None
    /\ server_pc = "not_spawned"
    /\ published = 0
    /\ inserts = << >>
    /\ history = << >>
    /\ sml_file = ListFile(<< >>)
    /\ parse_result = NoResult
    /\ schema = None

InitObis ==
    /\ Unstarted
    /\ obis_in \in {[kind |-> "octets", v |-> o] : o \in OctetStrs}
                   \cup {[kind |-> "text", v |-> t] : t \in Texts}
    /\ obis_out = [code |-> NoObis, text |-> << >>, parsed |-> NoObis]
    /\ query_in = [kind |-> "none"]
    /\ query_out = [kind |-> "none", seq |-> 0]
    /\ db_handle = "none"
    /\ store_out = [op |-> "none"]

ObisUnchanged ==
    UNCHANGED <<db_exists, rows, clock, main_pc, decoder, last_event, reading, latest_reading,
                server_pc, published, inserts, history, sml_file, parse_result, schema,
                obis_in, query_in, query_out, db_handle, store_out>>

\* ObisCode::try_from_octet_str(obis_in)
ObisTryFromOctetStr ==
    /\ obis_in.kind = "octets"
    /\ obis_out.code = NoObis
    /\ obis_out' = [obis_out EXCEPT !.code = ObisCode_try_from_octet_str(obis_in.v)]
    /\ ObisUnchanged

\* code.to_string()
ObisToString ==
    /\ obis_out.code.ok
    /\ obis_out.text = << >>
    /\ obis_out' = [obis_out EXCEPT !.text = ObisCode_fmt(obis_out.code.inner)]
    /\ ObisUnchanged

\* ObisCode::try_from(text), of the drawn text or of the text just rendered
ObisTryFromStr ==
    /\ obis_out.parsed = NoObis
    /\ \/ obis_in.kind = "text"
          /\ obis_out' = [obis_out EXCEPT !.parsed = ObisCode_try_from_str(obis_in.v)]
       \/ obis_in.kind = "octets" /\ obis_out.text # << >>
          /\ obis_out' = [obis_out EXCEPT !.parsed = ObisCode_try_from_str(obis_out.text)]
    /\ ObisUnchanged

NextObis == ObisTryFromOctetStr \/ ObisToString \/ ObisTryFromStr

ObisSpec == InitObis /\ [][NextObis]_vars

----------------------------------------------------------------------------
(* the store alone: a process that calls Database::load and then
   insert_reading and list_readings in any order, while another process may
   create the store *)

\* the Readings handed to insert_reading
StoreReadings ==
    {MeterReading_parse(file, FALSE).reading : file \in LineFiles \ MisshapenFiles}

InitStore ==
    /\ db_exists \in BOOLEAN
    /\ rows = << >>
    /\ schema = IF db_exists THEN Some(Schema) ELSE None
    /\ clock = 1
    /\ main_pc = "load"
    /\ decoder = "start"
    /\ last_event = "none"
    /\ reading = EmptyReading
    /\ latest_reading = None
    /\ server_pc = "not_spawned"
    /\ published = 0
    /\ inserts = << >>
    /\ history = << >>
    /\ sml_file = ListFile(<< >>)
    /\ parse_result = NoResult
    /\ AsideIdle

StoreUnchanged ==
    UNCHANGED <<main_pc, decoder, last_event, reading, latest_reading, server_pc, published,
                history, sml_file, parse_result, obis_in, obis_out, query_in, query_out>>

\* SystemTime::now() advances
StoreTick ==
    /\ clock < MaxClock
    /\ clock' = clock + 1
    /\ UNCHANGED <<db_exists, rows, schema, inserts, db_handle, store_out>>
    /\ StoreUnchanged

\* Database::load: `if path.exists()`
LoadCheck ==
    /\ db_handle = "none"
    /\ db_handle' = IF db_exists THEN "opening" ELSE "creating"
    /\ UNCHANGED <<db_exists, rows, schema, clock, inserts, store_out>>
    /\ StoreUnchanged

\* Database::load: Connection::open(&path) of the existing store
LoadOpen ==
    /\ db_handle = "opening"
    /\ \E io_ok \in BOOLEAN :
         /\ db_handle' = IF io_ok THEN "open" ELSE "failed"
         /\ store_out' = [op |-> "open", ok |-> io_ok]
    /\ UNCHANGED <<db_exists, rows, schema, clock, inserts>>
    /\ StoreUnchanged

\* Database::load: create_dir_all and Self::init(&path)
LoadInit ==
    /\ db_handle = "creating"
    /\ \E io_ok \in BOOLEAN :
         LET done == Database_init(db_exists, rows, schema, io_ok)
         IN  /\ db_exists' = done.exists
             /\ rows' = done.table
             /\ schema' = done.schema
             /\ db_handle' = IF done.ok THEN "open" ELSE "failed"
             /\ store_out' = [op |-> "init", ok |-> done.ok, error |-> done.error]
    /\ UNCHANGED <<clock, inserts>>
    /\ StoreUnchanged

\* another process (a second `start`, or the `database` command) runs
\* Database::load on the same path and creates the store
OtherProcessCreates ==
    /\ ~db_exists
    /\ LET done == Database_init(db_exists, rows, schema, TRUE)
       IN  /\ db_exists' = done.exists
           /\ rows' = done.table
           /\ schema' = done.schema
    /\ UNCHANGED <<clock, inserts, db_handle, store_out>>
    /\ StoreUnchanged

\* database.insert_reading(&r)
StoreInsert ==
    /\ db_handle = "open"
    /\ Len(inserts) < MaxFrames
    /\ \E r \in StoreReadings, io_error \in {0} \cup IoErrorCodes :
         LET done == Database_insert_reading(rows, r, clock, io_error)
         IN  /\ rows' = done.table
             /\ inserts' = Append(inserts,
                    [reading |-> r, timestamp |-> clock, before |-> rows,
                     failed |-> done.failed, ok |-> done.ok, warning |-> done.warning])
             /\ store_out' = [op |-> "insert", ok |-> done.ok]
    /\ UNCHANGED <<db_exists, schema, clock, db_handle>>
    /\ StoreUnchanged

\* database.list_readings()?.collect(), where the step to one row may fail
StoreList ==
    /\ db_handle = "open"
    /\ \E bad_row \in 0..Len(rows) :
         store_out' = [op |-> "list", table |-> rows, bad_row |-> bad_row,
                       out |-> Database_list_readings(rows, bad_row)]
    /\ UNCHANGED <<db_exists, rows, schema, clock, inserts, db_handle>>
    /\ StoreUnchanged

\* database.metrics()
StoreMetrics ==
    /\ db_handle = "open"
    /\ \E io_ok \in BOOLEAN :
         LET done == Database_metrics(rows, db_exists, io_ok)
         IN  store_out' = [op |-> "metrics", ok |-> done.ok,
                           count_readings |-> done.count_readings]
    /\ UNCHANGED <<db_exists, rows, schema, clock, inserts, db_handle>>
    /\ StoreUnchanged

\* a ReadonlyDatabase on the same store file runs query(&body)
StoreQuery ==
    /\ db_exists
    /\ \E kind \in BodyKinds, rows_again \in BOOLEAN :
         LET body == Body(kind, rows)
         IN  /\ store_out' = [op |-> "query", statement |-> kind,
                              out |-> ReadonlyDatabase_query(body, rows_again).kind]
             /\ rows' = ReadonlyDatabase_effect(rows, body)
    /\ UNCHANGED <<db_exists, schema, clock, inserts, db_handle>>
    /\ StoreUnchanged

\* the Database value is dropped: the connection closes
StoreDrop ==
    /\ db_handle \in {"open", "failed"}
    /\ db_handle' = "none"
    /\ UNCHANGED <<db_exists, rows, schema, clock, inserts, store_out>>
    /\ StoreUnchanged

NextStore ==
    \/ StoreTick
    \/ LoadCheck
    \/ LoadOpen
    \/ LoadInit
    \/ OtherProcessCreates
    \/ StoreInsert
    \/ StoreList
    \/ StoreMetrics
    \/ StoreQuery
    \/ StoreDrop

StoreSpec == InitStore /\ [][NextStore]_vars

----------------------------------------------------------------------------
(* the query alone: ReadonlyDatabase::query applied to a drawn statement *)

\* rows of a drawn result
MaxRows == 2

ColumnNames == <<"a", "b">>

\* cells of each runtime type; v stands for the content
CellValues == {Cell("Integer", 1), Cell("Float", 15), NullCell, Cell("String", 97)}

Grids(columns) == UNION {[1..n -> [1..columns -> CellValues]] : n \in 0..MaxRows}

Selects ==
    UNION {{[kind |-> "select", columns |-> SubSeq(ColumnNames, 1, c), grid |-> g] :
               g \in Grids(c)} : c \in 1..Len(ColumnNames)}

\* INSERT, UPDATE, DELETE, DROP on the store, and text that does not compile
OtherStatements ==
    {[kind |-> "write", columns |-> << >>, grid |-> << >>],
     [kind |-> "malformed", columns |-> << >>, grid |-> << >>]}

InitQuery ==
    /\ Unstarted
    /\ obis_in = [kind |-> "none", v |-> << >>]
    /\ obis_out = [code |-> NoObis, text |-> << >>, parsed |-> NoObis]
    /\ query_in \in Selects \cup OtherStatements
    /\ query_out = [kind |-> "none", seq |-> 0]
    /\ db_handle = "none"
    /\ store_out = [op |-> "none"]

\* database.query(&body)
RunQuery ==
    /\ query_out.kind = "none"
    /\ \E rows_again \in BOOLEAN :
         query_out' = ReadonlyDatabase_query(query_in, rows_again)
    /\ UNCHANGED <<db_exists, rows, clock, main_pc, decoder, last_event, reading, latest_reading,
                   server_pc, published, inserts, history, sml_file, parse_result, schema,
                   obis_in, obis_out, query_in, db_handle, store_out>>

NextQuery == RunQuery

QuerySpec == InitQuery /\ [][NextQuery]_vars

----------------------------------------------------------------------------
(* Claims *)

Requests == {k \in 1..Len(history) : history[k].op = "request"}

Publishes == {k \in 1..Len(history) : history[k].op = "publish"}

\* the last publish before position k of the history, or 0
LastPublishBefore(k) ==
    LET earlier == {j \in Publishes : j < k}
    IN  IF earlier = {} THEN 0 ELSE CHOOSE j \in earlier : \A i \in earlier : i <= j

\* C1: take() returns the most recently published reading when no take()
\* happened since that publish, and empty otherwise
C1_ConsumeOnRead ==
    \A k \in Requests :
        LET j == LastPublishBefore(k)
        IN  IF j # 0 /\ ~(\E i \in Requests : j < i /\ i < k)
            THEN /\ history[k].id = history[j].id
                 /\ history[k].reading = history[j].reading
            ELSE /\ history[k].id = 0
                 /\ history[k].reading = None

\* publish(A); publish(B); take() = Some(B); take() = None
C1_Witness ==
    \E k \in 1..Len(history) :
        /\ k + 3 <= Len(history)
        /\ history[k].op = "publish"
        /\ history[k + 1].op = "publish"
        /\ history[k + 2].op = "request"
        /\ history[k + 2].id = history[k + 1].id
        /\ history[k + 3].op = "request"
        /\ history[k + 3].reading = None

\* C2: each published reading is answered with 200 by at most one request of
\* either route, and whole; every other request answers 204 with an empty body
C2_OneDeliveryPerPublish ==
    /\ \A a, b \in Requests :
         (a # b /\ history[a].status = 200) => history[a].id # history[b].id
    /\ \A k \in Requests :
         IF history[k].status = 200
         THEN \E j \in Publishes :
                /\ j < k
                /\ history[j].id = history[k].id
                /\ history[k].reading = history[j].reading
         ELSE /\ history[k].status = 204
              /\ history[k].reading = None
              /\ history[k].id = 0

\* one publish, then a 200 on one route and a 204 on the other
C2_Witness ==
    \E a, b \in Requests :
        /\ a < b
        /\ history[a].route # history[b].route
        /\ history[a].status = 200
        /\ history[b].status = 204
        /\ Cardinality({j \in Publishes : j < b}) = 1

\* the table after the k-th insert_reading call
AfterTable(k) == IF k < Len(inserts) THEN inserts[k + 1].before ELSE rows

RowsAt(table, timestamp) == {k \in 1..Len(table) : table[k].Timestamp = timestamp}

\* C3: two inserts within one wall-clock second (neither hit by an I/O failure)
\* leave exactly one row for that second, the first reading's, and the second
\* insert returns Ok
C3_SameSecondOneRow ==
    \A i, j \in 1..Len(inserts) :
        (/\ i < j
         /\ inserts[i].timestamp = inserts[j].timestamp
         /\ inserts[i].timestamp \notin Timestamps(inserts[i].before)
         /\ inserts[i].failed # "io"
         /\ inserts[j].failed # "io")
        => /\ inserts[j].ok
           /\ Cardinality(RowsAt(AfterTable(j), inserts[j].timestamp)) = 1
           /\ \A k \in RowsAt(AfterTable(j), inserts[j].timestamp) :
                AfterTable(j)[k] = BoundRow(inserts[i].reading, inserts[i].timestamp)

\* C4: no two rows carry the same ingestion timestamp, and an insert that
\* writes no row was stopped by its timestamp, by a null total energy or by an
\* I/O failure, never by its meter_time
C4_TimestampUnique ==
    /\ \A a, b \in 1..Len(rows) : a # b => rows[a].Timestamp # rows[b].Timestamp
    /\ \A k \in 1..Len(inserts) :
         AfterTable(k) = inserts[k].before
         => \/ inserts[k].timestamp \in Timestamps(inserts[k].before)
            \/ inserts[k].reading.meter_reading = None
            \/ inserts[k].failed = "io"

\* two rows with the same meter_time under distinct ingestion timestamps
C4_Witness ==
    \E a, b \in 1..Len(rows) :
        /\ a # b
        /\ IsSome(rows[a].MeterTime)
        /\ rows[a].MeterTime = rows[b].MeterTime
        /\ rows[a].Timestamp # rows[b].Timestamp

\* C5: an insert at a second not yet in the store (and not hit by an I/O
\* failure) adds exactly the row of its reading, whatever fields are set
C5_FreshSecondAddsRow ==
    \A k \in 1..Len(inserts) :
        (/\ inserts[k].timestamp \notin Timestamps(inserts[k].before)
         /\ inserts[k].failed # "io")
        => AfterTable(k) =
             Append(inserts[k].before, BoundRow(inserts[k].reading, inserts[k].timestamp))

\* C6: an insert that writes no row although its timestamp is new returns Err
\* and ends the loop; a warning with Ok is given for a duplicate timestamp only
C6_OnlyDuplicateIsWarning ==
    \A k \in 1..Len(inserts) :
        /\ (/\ AfterTable(k) = inserts[k].before
            /\ inserts[k].timestamp \notin Timestamps(inserts[k].before))
           => /\ ~inserts[k].ok
              /\ main_pc = "exit_err"
        /\ (inserts[k].ok /\ inserts[k].warning)
           => inserts[k].timestamp \in Timestamps(inserts[k].before)

NoiseEvents == {"framing_error", "parse_error", "shape_error"}

\* a step of the byte loop that ends a frame
FrameEnded == decoder = "in_frame" /\ decoder' = "start"

\* C7: a framing error, a parse failure or a shape violation leaves the loop
\* listening and the store and the cache unchanged; a record set that
\* extracts is handed to insert_reading and, when that returns Ok, published
C7_NoiseIsSkipped ==
    [][/\ (FrameEnded /\ last_event' \in NoiseEvents)
          => /\ main_pc = "listening"
             /\ main_pc' = "listening"
             /\ rows' = rows
             /\ latest_reading' = latest_reading
             /\ inserts' = inserts
       /\ (FrameEnded /\ last_event' = "reading")
          => /\ main_pc' = "insert"
             /\ \E file \in LineFiles :
                  reading' = MeterReading_parse(file, FALSE).reading
       /\ (main_pc = "insert" /\ main_pc' # "insert")
          => /\ Len(inserts') = Len(inserts) + 1
             /\ inserts'[Len(inserts')].reading = reading
             /\ main_pc' = IF inserts'[Len(inserts')].ok THEN "publish" ELSE "exit_err"
       /\ (main_pc = "publish" /\ main_pc' # "publish")
          => /\ main_pc' = "listening"
             /\ IsSome(latest_reading')
             /\ Unwrap(latest_reading').reading = reading
      ]_vars

\* a skipped frame after a reading was stored and published: the loop still
\* listens, the row and the cell content are still there
C7_Witness ==
    /\ last_event \in NoiseEvents
    /\ main_pc = "listening"
    /\ rows # << >>
    /\ IsSome(latest_reading)

\* C8: a serial read that times out leaves the loop running
C8_TimeoutKeepsLoop == last_event = "timeout" => main_pc \notin Terminated

\* C9: once either thread has ended with a fatal error the process terminates
C9_FatalLeadsToExit ==
    (server_pc \in {"panicked", "failed"} \/ main_pc = "exit_err")
        ~> (main_pc \in Terminated)

WellShaped(file) ==
    Len(file.messages) = 3 /\ file.messages[2].kind = "GetListResponse"

\* C10: MeterReading::parse returns an error exactly for a record set of the
\* wrong shape, and a Reading, without panic, for every other one
C10_ParseFailsOnlyOnShape ==
    parse_result.out.kind # "none"
    => IF WellShaped(sml_file)
       THEN parse_result.out.kind = "Ok"
       ELSE parse_result.out.kind = "Err"

\* the record set of a well-shaped file
ValList(file) == file.messages[2].val_list

TotalCode == <<1, 0, 1, 8, 0>>

LineCodes == [line_one |-> <<1, 0, 36, 7, 0>>, line_two |-> <<1, 0, 56, 7, 0>>,
              line_three |-> <<1, 0, 76, 7, 0>>]

\* the code an entry's identifier names: its first five octets when it has six
CodeOf(entry) ==
    IF Len(entry.obj_name) = 6 THEN SubSeq(entry.obj_name, 1, 5) ELSE << >>

Recognized(entry) ==
    CodeOf(entry) \in {TotalCode, LineCodes.line_one, LineCodes.line_two, LineCodes.line_three}

\* C11: the result of the extraction is that of the same record set without
\* the entries whose identifier is none of the four recognized codes
C11_UnrecognizedEntriesIgnored ==
    (parse_result.out.kind # "none" /\ WellShaped(sml_file))
    => MeterReading_parse(ListFile(SelectSeq(ValList(sml_file), Recognized)),
                          parse_result.checks) = parse_result.out

\* a Reading with total energy extracted from a record set that also holds an
\* entry under another identifier
C11_Witness ==
    /\ WellShaped(sml_file)
    /\ parse_result.out.kind = "Ok"
    /\ IsSome(parse_result.out.reading.meter_reading)
    /\ \E k \in 1..Len(ValList(sml_file)) : ~Recognized(ValList(sml_file)[k])

\* the type the extractor accepts for an entry of a recognized code
RightType(entry) ==
    entry.value.type = (IF CodeOf(entry) = TotalCode THEN "U64" ELSE "I32")

WrongTyped(entry) == Recognized(entry) /\ ~RightType(entry)

EntriesOf(file, code) ==
    {k \in 1..Len(ValList(file)) : CodeOf(ValList(file)[k]) = code}

\* C12 as stated: a record set holding a total-energy entry of another type
\* than U64 has total_energy unset, one holding a line entry of another type
\* than I32 has that line unset, whatever else it holds
C12_WrongTypeLeavesUnset ==
    (WellShaped(sml_file) /\ parse_result.out.kind = "Ok")
    => /\ (\E k \in EntriesOf(sml_file, TotalCode) : WrongTyped(ValList(sml_file)[k]))
          => parse_result.out.reading.meter_reading = None
       /\ \A f \in DOMAIN LineCodes :
            (\E k \in EntriesOf(sml_file, LineCodes[f]) : WrongTyped(ValList(sml_file)[k]))
            => parse_result.out.reading[f] = None

\* C12, amended: an entry of the wrong type is skipped (the result is that of
\* the record set without it), so a field is unset when every entry of its
\* code has the wrong type
C12_WrongTypeIsSkipped ==
    (WellShaped(sml_file) /\ parse_result.out.kind # "none")
    => /\ MeterReading_parse(
              ListFile(SelectSeq(ValList(sml_file), LAMBDA e : ~WrongTyped(e))),
              parse_result.checks) = parse_result.out
       /\ parse_result.out.kind = "Ok"
          => /\ (\A k \in EntriesOf(sml_file, TotalCode) : WrongTyped(ValList(sml_file)[k]))
                => /\ parse_result.out.reading.meter_reading = None
                   /\ parse_result.out.reading.meter_reading_unit = None
                   /\ parse_result.out.reading.meter_time = None
             /\ \A f \in DOMAIN LineCodes :
                  (\A k \in EntriesOf(sml_file, LineCodes[f]) : WrongTyped(ValList(sml_file)[k]))
                  => parse_result.out.reading[f] = None

\* a total-energy entry of type I32 or Bool and a line entry of type U64 or
\* Bool, extracted to a Reading with neither field set
C12_Witness ==
    /\ WellShaped(sml_file)
    /\ parse_result.out.kind = "Ok"
    /\ \E k \in EntriesOf(sml_file, TotalCode) : WrongTyped(ValList(sml_file)[k])
    /\ \E k \in EntriesOf(sml_file, LineCodes.line_one) : WrongTyped(ValList(sml_file)[k])
    /\ parse_result.out.reading.meter_reading = None
    /\ parse_result.out.reading.line_one = None

\* the total-energy entries the extractor takes a value from
TotalsTaken(file) ==
    {k \in EntriesOf(file, TotalCode) : RightType(ValList(file)[k])}

LastOf(S) == CHOOSE k \in S : \A j \in S : j <= k

\* C13: total_energy is r / 10^(-s), that is r * 10^s, for the raw value r and
\* the scale exponent s of the total-energy entry (r when it has no scale),
\* with the unit of the entry's unit code
C13_ScaledTotal ==
    (WellShaped(sml_file) /\ parse_result.out.kind = "Ok" /\ TotalsTaken(sml_file) # {})
    => LET entry == ValList(sml_file)[LastOf(TotalsTaken(sml_file))]
       IN  /\ parse_result.out.reading.meter_reading =
                Some([m |-> entry.value.v,
                      e |-> IF IsSome(entry.scaler) THEN Unwrap(entry.scaler) ELSE 0])
           /\ parse_result.out.reading.meter_reading_unit =
                (IF IsSome(entry.unit) THEN Unit_from_u8(Unwrap(entry.unit)) ELSE None)


RECURSIVE SplitText(_, _, _)
\* the runs of digits of text t from position i on, where cur is the run so far
SplitText(t, i, cur) ==
    IF i > Len(t) THEN <<cur>>
    ELSE IF IsDigit(t[i]) THEN SplitText(t, i + 1, Append(cur, t[i]))
    ELSE <<cur>> \o SplitText(t, i + 1, << >>)

\* the numeric components of a text and the characters between them
Components(t) == SplitText(t, 1, << >>)

Between(t) == SelectSeq(t, LAMBDA c : ~IsDigit(c))

RECURSIVE Decimal(_)
\* the number a run of digits denotes
Decimal(d) ==
    IF d = << >> THEN 0
    ELSE 10 * Decimal(SubSeq(d, 1, Len(d) - 1)) + DigitValue(d[Len(d)])

\* "a-b:c.d.e": five numeric components, none above 255, separated by
\* '-', ':', '.', '.' in that order
FiveComponents(t) ==
    /\ Between(t) = <<45, 58, 46, 46>>
    /\ \A i \in 1..5 : Components(t)[i] # << >> /\ Decimal(Components(t)[i]) <= 255

\* C14: the text of the code made from a 6-octet string x is "a-b:c.d.e" for
\* the first five octets of x, and parsing it gives the same code again
C14_TextRoundTrip ==
    (obis_in.kind = "octets" /\ Len(obis_in.v) = 6)
    => /\ obis_out.code # NoObis
          => obis_out.code.ok /\ obis_out.code.inner = SubSeq(obis_in.v, 1, 5)
       /\ obis_out.text # << >>
          => /\ FiveComponents(obis_out.text)
             /\ \A i \in 1..5 :
                  /\ Decimal(Components(obis_out.text)[i]) = obis_in.v[i]
                  /\ Len(Components(obis_out.text)[i]) > 1
                     => Components(obis_out.text)[i][1] # 48
       /\ obis_out.parsed # NoObis
          => obis_out.parsed = obis_out.code

\* 0-0:36.255.0 from the octets 0, 0, 36, 255, 0, 255, parsed back
C14_Witness ==
    /\ obis_in = [kind |-> "octets", v |-> <<0, 0, 36, 255, 0, 255>>]
    /\ obis_out.text = <<48, 45, 48, 58, 51, 54, 46, 50, 53, 53, 46, 48>>
    /\ obis_out.parsed.ok
    /\ obis_out.parsed.inner = <<0, 0, 36, 255, 0>>

\* C15: an octet string of another length than 6 fails with InvalidLength,
\* and a text that is not five numeric components of at most 255 separated by
\* '-', ':', '.', '.' fails
C15_ConstructionFails ==
    /\ (obis_in.kind = "octets" /\ Len(obis_in.v) # 6 /\ obis_out.code # NoObis)
       => ~obis_out.code.ok /\ obis_out.code.err = "InvalidLength"
    /\ (obis_in.kind = "text" /\ ~FiveComponents(obis_in.v) /\ obis_out.parsed # NoObis)
       => ~obis_out.parsed.ok


\* the Readings whose insert added a row, in the order of their inserts
RECURSIVE StoredReadings(_)
StoredReadings(k) ==
    IF k = 0 THEN << >>
    ELSE IF AfterTable(k) # inserts[k].before
    THEN Append(StoredReadings(k - 1), inserts[k].reading)
    ELSE StoredReadings(k - 1)

\* C16: list_readings over a store filled by inserts ends without panic and,
\* when no row fails, yields one item per row in storage order whose
\* meter_time, total_energy and line powers are those of the Reading inserted
\* for that row
C16_ListReturnsInserted ==
    store_out.op = "list"
    => /\ store_out.out.kind # "Panic"
       /\ store_out.bad_row = 0
          => /\ store_out.out.kind = "Ok"
             /\ Len(store_out.out.items) = Len(store_out.table)
             /\ \A k \in 1..Len(store_out.table) :
                  LET item == store_out.out.items[k]
                      given == StoredReadings(Len(inserts))[k]
                  IN  /\ item.meter_time = given.meter_time
                      /\ item.meter_reading = given.meter_reading
                      /\ item.line_one = given.line_one
                      /\ item.line_two = given.line_two
                      /\ item.line_three = given.line_three

\* a step of load that ran Database::init, and one that opened the store
InitStep == db_handle = "creating" /\ db_handle' # "creating"

OpenStep == db_handle = "opening" /\ db_handle' # "opening"

\* C20: initialization on a path where a store exists fails and leaves the
\* store as it is; load of an existing store changes nothing of it; load
\* without a store creates an empty one with the fixed schema and the unique
\* index on the ingestion timestamp
C20_LoadKeepsOrCreates ==
    [][/\ (InitStep /\ db_exists)
          => /\ db_handle' = "failed"
             /\ ~store_out'.ok
             /\ store_out'.error = "Database already exists."
             /\ UNCHANGED <<db_exists, rows, schema>>
       /\ OpenStep => UNCHANGED <<db_exists, rows, schema>>
       /\ (InitStep /\ ~db_exists /\ db_handle' = "open")
          => /\ db_exists'
             /\ rows' = << >>
             /\ IsSome(schema')
             /\ Unwrap(schema').columns =
                  <<"MeterTime", "Timestamp", "MeterReading", "LineOne", "LineTwo", "LineThree">>
             /\ Unwrap(schema').unique = {"Timestamp"}
      ]_vars

\* load found no store, another process created one, and init has failed on
\* it and left it in place
C20_Witness ==
    /\ store_out.op = "init"
    /\ ~store_out.ok
    /\ store_out.error = "Database already exists."
    /\ db_handle = "failed"
    /\ db_exists
    /\ schema = Some(Schema)

\* the cells of the result of a select
GridCells(statement) ==
    {statement.grid[r][c] : r \in 1..Len(statement.grid), c \in 1..Len(statement.columns)}

Numeric == {"Integer", "Float", "Null"}

\* C17: a result with a cell of another runtime type than integer, float or
\* null, in any row, makes query return an error
C17_ForeignTypeIsError ==
    (/\ query_in.kind = "select"
     /\ query_out.kind # "none"
     /\ \E cell \in GridCells(query_in) : cell.type \notin Numeric)
    => query_out.kind = "Err"

\* what a cell is reported as
Reported(cell) ==
    CASE cell.type = "Integer" -> Some(Value_I64(cell.v))
      [] cell.type = "Float" -> Some(Value_F64(cell.v))
      [] OTHER -> None

\* C18: a select whose cells are all integer, float or null returns the
\* column names, every row in order with one cell per column, their count,
\* and each cell as None when it is null and as its number otherwise
C18_NumericGridReturned ==
    (/\ query_in.kind = "select"
     /\ query_out.kind # "none"
     /\ \A cell \in GridCells(query_in) : cell.type \in Numeric)
    => /\ query_out.kind = "Ok"
       /\ query_out.columns = query_in.columns
       /\ query_out.rows_count = Len(query_in.grid)
       /\ Len(query_out.rows) = Len(query_in.grid)
       /\ \A r \in 1..Len(query_in.grid) :
            /\ Len(query_out.rows[r]) = Len(query_in.columns)
            /\ \A c \in 1..Len(query_in.columns) :
                 query_out.rows[r][c] = Reported(query_in.grid[r][c])


\* a step in which the Query Surface answered a request
QueryAnswered == query_out'.seq # query_out.seq

\* C19: a query leaves the store as it is and the serving thread serving, a
\* write or a malformed statement is answered with 400 and an error object,
\* and the rows change only in an insert of the ingestion thread
C19_QueriesLeaveStore ==
    [][/\ QueryAnswered
          => /\ UNCHANGED <<db_exists, rows, schema>>
             /\ server_pc' = "serving"
             /\ query_in'.kind \in {"write", "malformed"}
                => /\ query_out'.kind = "response"
                   /\ query_out'.status = 400
                   /\ query_out'.error # ""
       /\ rows' # rows
          => /\ main_pc = "insert"
             /\ Len(inserts') = Len(inserts) + 1
      ]_vars

\* a write statement sent as the second request to a store with a row is
\* answered with 400, the row is still there and the thread still serves
C19_Witness ==
    /\ query_in.kind = "write"
    /\ query_out.seq = 2
    /\ query_out.status = 400
    /\ rows # << >>
    /\ server_pc = "serving"

----------------------------------------------------------------------------
(* core_loop.rs 55-66: the order of insert and publish *)

LastInsert(log) == log[Len(log)]

\* C21: an extracted Reading is inserted first and published only after that
\* insert returned Ok; a fatal insert error leaves the cell unchanged and ends
\* the loop; a decoded record set causes at most one insert and one publish
C21_InsertThenPublish ==
    [][/\ (main_pc' = "insert" /\ main_pc # "insert") =>
            /\ main_pc = "listening"
            /\ last_event' = "reading"
            /\ inserts' = inserts
            /\ published' = published
       /\ inserts' # inserts =>
            /\ main_pc = "insert"
            /\ main_pc' \in {"publish", "exit_err"}
            /\ Len(inserts') = Len(inserts) + 1
            /\ LastInsert(inserts').reading = reading
            /\ published' = published
            /\ latest_reading' = latest_reading
            /\ main_pc' = "publish" <=> LastInsert(inserts').ok
       /\ (main_pc' = "publish" /\ main_pc # "publish") => inserts' # inserts
       /\ published' # published =>
            /\ main_pc = "publish"
            /\ main_pc' = "listening"
            /\ published' = published + 1
            /\ inserts' = inserts
            /\ LastInsert(inserts).ok
            /\ latest_reading' =
                  Some([id |-> published', reading |-> LastInsert(inserts).reading])
       /\ main_pc = "exit_err" =>
            /\ main_pc' = "exit_err"
            /\ published' = published
            /\ inserts' = inserts
            /\ latest_reading' \in {latest_reading, None}
      ]_vars

\* a first reading was inserted and published, the insert of the second one
\* failed on I/O and the cell still holds the first
C21_Witness ==
    /\ Len(inserts) = 2
    /\ inserts[1].ok
    /\ ~inserts[2].ok
    /\ published = 1
    /\ main_pc = "exit_err"
    /\ latest_reading = Some([id |-> 1, reading |-> inserts[1].reading])

----------------------------------------------------------------------------
(* meter_reading.rs 72-93: meter_time *)

SecondsOf(entry) ==
    IF IsSome(entry.val_time) /\ Unwrap(entry.val_time).kind = "SecIndex"
    THEN Some(Unwrap(entry.val_time).v)
    ELSE None

C25_TimeOnlyWithTotal ==
    parse_result.out.kind = "Ok"
    => (IsSome(parse_result.out.reading.meter_time)
        => IsSome(parse_result.out.reading.meter_reading))

\* two total-energy entries, one of type U64 and one of another type, both
\* with a seconds counter, extracted to a Reading with meter_time and total
C25_Witness ==
    /\ WellShaped(sml_file)
    /\ parse_result.out.kind = "Ok"
    /\ Cardinality(EntriesOf(sml_file, TotalCode)) = 2
    /\ Cardinality(TotalsTaken(sml_file)) = 1
    /\ \A k \in EntriesOf(sml_file, TotalCode) :
          SecondsOf(ValList(sml_file)[k]) # None
    /\ IsSome(parse_result.out.reading.meter_time)
    /\ IsSome(parse_result.out.reading.meter_reading)

----------------------------------------------------------------------------
(* meter_reading.rs 69-120, unit.rs 51-61: the unit of a field *)

\* the four mapped fields: code, value field, unit field
MappedFields ==
    {<<TotalCode, "meter_reading", "meter_reading_unit">>,
     <<LineCodes.line_one, "line_one", "line_one_unit">>,
     <<LineCodes.line_two, "line_two", "line_two_unit">>,
     <<LineCodes.line_three, "line_three", "line_three_unit">>}

\* the unit a unit code stands for, None when absent or any other number
UnitOfCode(unit) ==
    IF unit = None THEN None
    ELSE CASE Unwrap(unit) = 8  -> Some("Degree")
           [] Unwrap(unit) = 27 -> Some("Watt")
           [] Unwrap(unit) = 30 -> Some("WattHour")
           [] Unwrap(unit) = 33 -> Some("Ampere")
           [] Unwrap(unit) = 35 -> Some("Volt")
           [] Unwrap(unit) = 44 -> Some("Hertz")
           [] OTHER             -> None

\* the entries of a code whose value has the type the field requires
Taken(file, code) == {k \in EntriesOf(file, code) : RightType(ValList(file)[k])}

\* C23: a mapped field whose entry has the required type holds the entry's
\* value whether or not a unit is known; its unit is the mapped Unit for the
\* codes 8, 27, 30, 33, 35, 44 and unset for an absent or any other code
C23_UnitFromCode ==
    (WellShaped(sml_file) /\ parse_result.out.kind = "Ok")
    => \A f \in MappedFields :
         Taken(sml_file, f[1]) # {}
         => LET entry == ValList(sml_file)[LastOf(Taken(sml_file, f[1]))]
            IN  /\ parse_result.out.reading[f[2]] =
                     (IF f[1] = TotalCode THEN Some(ScaleValue(entry.value.v, entry.scaler))
                      ELSE Some(entry.value.v))
                /\ parse_result.out.reading[f[3]] = UnitOfCode(entry.unit)

\* a line-three entry of type I32 with the unit code 35, extracted to the
\* value with the unit Volt
C23_Witness ==
    /\ parse_result.out.kind = "Ok"
    /\ Taken(sml_file, LineCodes.line_three) # {}
    /\ ValList(sml_file)[1].unit = Some(35)
    /\ parse_result.out.reading.line_three = Some(-3)
    /\ parse_result.out.reading.line_three_unit = Some("Volt")

----------------------------------------------------------------------------
(* database.rs 59-120: the store only grows *)

IsPrefix(s, t) == Len(s) <= Len(t) /\ SubSeq(t, 1, Len(s)) = s

MetricsReturned == store_out'.op = "metrics" /\ store_out' # store_out /\ store_out'.ok

\* C24: over insert, list, metrics and query the rows never shrink and a
\* written row is never modified (the rows before a step are a prefix of the
\* rows after it), and metrics() reports the number of rows present
C24_AppendOnly ==
    [][/\ IsPrefix(rows, rows')
       /\ MetricsReturned
          => /\ store_out'.count_readings = Len(rows)
             /\ rows' = rows
      ]_vars

\* two rows were inserted and metrics() has reported the count 2
C24_Witness ==
    /\ store_out.op = "metrics"
    /\ store_out.ok
    /\ store_out.count_readings = 2
    /\ Len(rows) = 2
    /\ Len(inserts) = 2

----------------------------------------------------------------------------
(* core_loop.rs 65-66, database.rs 71-83: a duplicate is published *)

\* the k-th insert_reading ran in a second that already has a row, and was
\* not hit by an I/O failure
Duplicate(k) ==
    /\ inserts[k].timestamp \in Timestamps(inserts[k].before)
    /\ inserts[k].failed # "io"

\* the number of the publish that follows the k-th insert_reading
PublishOf(k) == Cardinality({j \in 1..k : inserts[j].ok})

\* C26: a Reading whose insert was a duplicate-timestamp no-op is published
\* all the same: the insert returns Ok, the store keeps the one row the
\* second already had, and the Reading goes into the cell
C26_DuplicateIsPublished ==
    \A k \in 1..Len(inserts) :
        Duplicate(k)
        => /\ inserts[k].ok
           /\ AfterTable(k) = inserts[k].before
           /\ Cardinality(RowsAt(rows, inserts[k].timestamp)) = 1
           /\ IF published >= PublishOf(k)
              THEN \E e \in Publishes :
                     /\ history[e].id = PublishOf(k)
                     /\ history[e].reading = Some(inserts[k].reading)
              ELSE k = Len(inserts) /\ main_pc = "publish"

\* two readings arrived in one second: the store holds one row, the first
\* reading's, and take() has returned the second reading
C26_Witness ==
    /\ Len(inserts) = 2
    /\ inserts[1].timestamp = inserts[2].timestamp
    /\ inserts[1].failed = "none"
    /\ inserts[2].failed = "unique"
    /\ rows = <<BoundRow(inserts[1].reading, inserts[1].timestamp)>>
    /\ \E k \in Requests :
          /\ history[k].status = 200
          /\ history[k].id = 2
          /\ history[k].reading = Some(inserts[2].reading)

----------------------------------------------------------------------------
(* cli/start.rs 18-32, server/mod.rs 19-38: the order of startup *)

\* C27: the serving thread exists only after the writer's load() has
\* completed, so the store file exists whenever ReadonlyDatabase::load runs or
\* has run (it cannot fail with "Database does not exist"); the cell the
\* serving thread takes from is the one the ingestion loop publishes to
C27_ServerAfterLoad ==
    /\ server_pc # "not_spawned"
       => /\ db_exists
          /\ schema = Some(Schema)
          /\ main_pc \notin {"load", "spawn"}
    /\ main_pc \in {"load", "spawn"}
       => /\ server_pc = "not_spawned"
          /\ latest_reading = None
          /\ history = << >>
    /\ IsSome(latest_reading)
       => \E e \in Publishes :
            /\ history[e].id = Unwrap(latest_reading).id
            /\ history[e].reading = Some(Unwrap(latest_reading).reading)
            /\ \A k \in Requests : history[k].id # history[e].id

\* the serving thread has opened its read-only connection and bound its
\* socket while the ingestion loop has published a first reading to the cell
C27_Witness ==
    /\ server_pc = "serving"
    /\ main_pc = "listening"
    /\ db_exists
    /\ published = 1
    /\ IsSome(latest_reading)
    /\ Requests # {}


====
